---- MODULE Spec2Model ----
(***************************************************************************)
(* Model of the counsellor endpoints of python_backend/app.py: the         *)
(* appointment lifecycle handlers (start, complete, status, reschedule,    *)
(* delete) and the availability slot handlers (upsert, toggle), run        *)
(* against a document store with the e-mail and notification side effects. *)
(*                                                                         *)
(* A handler is a sequence of remote calls (store reads and writes, SMTP). *)
(* Each remote call is one atomic step of the model; the local computation *)
(* between two calls (parsing, validation, the exists and ownership tests, *)
(* composing the message) belongs to the step of the call before it.       *)
(***************************************************************************)
EXTENDS Integers, Sequences, FiniteSets, TLC

(***************************************************************************)
(* Bounds of the model.                                                    *)
(***************************************************************************)
\* number of requests served in one behaviour
MaxRequests == 2

(***************************************************************************)
(* HTTP status codes the handlers answer with.                             *)
(***************************************************************************)
Success == 200
BadRequest == 400
Forbidden == 403
NotFound == 404
ServerError == 500
\* the bounds and the default of the insights window, in days
MinDays == 7
MaxDays == 30
DefaultDays == 30
\* (a request that has not answered yet carries 0)

(***************************************************************************)
(* Strings the code transforms are sequences of characters, so that        *)
(* str.lower() is computed and not assumed.                                *)
(***************************************************************************)
UpperToLower ==
  [c \in {"A","B","C","D","E","F","G","H","I","J","K","L","M",
          "N","O","P","Q","R","S","T","U","V","W","X","Y","Z"} |->
     CASE c = "A" -> "a" [] c = "B" -> "b" [] c = "C" -> "c" [] c = "D" -> "d"
       [] c = "E" -> "e" [] c = "F" -> "f" [] c = "G" -> "g" [] c = "H" -> "h"
       [] c = "I" -> "i" [] c = "J" -> "j" [] c = "K" -> "k" [] c = "L" -> "l"
       [] c = "M" -> "m" [] c = "N" -> "n" [] c = "O" -> "o" [] c = "P" -> "p"
       [] c = "Q" -> "q" [] c = "R" -> "r" [] c = "S" -> "s" [] c = "T" -> "t"
       [] c = "U" -> "u" [] c = "V" -> "v" [] c = "W" -> "w" [] c = "X" -> "x"
       [] c = "Y" -> "y" [] c = "Z" -> "z"]

LowerChar(c) == IF c \in DOMAIN UpperToLower THEN UpperToLower[c] ELSE c

\* str.lower()
Lower(s) == [i \in 1..Len(s) |-> LowerChar(s[i])]

s_pending == <<"p","e","n","d","i","n","g">>
s_approved == <<"a","p","p","r","o","v","e","d">>
s_confirmed == <<"c","o","n","f","i","r","m","e","d">>
s_cancelled == <<"c","a","n","c","e","l","l","e","d">>
s_canceled == <<"c","a","n","c","e","l","e","d">>
s_in_progress == <<"i","n","_","p","r","o","g","r","e","s","s">>
s_completed == <<"c","o","m","p","l","e","t","e","d">>
\* request inputs in other spellings
s_Approved == <<"A","p","p","r","o","v","e","d">>
s_CANCELED == <<"C","A","N","C","E","L","E","D">>
s_Completed == <<"C","o","m","p","l","e","t","e","d">>
\* the empty string; a missing or null JSON field reads as this after `or ''`
s_empty == <<>>

(***************************************************************************)
(* The universe of ids and keys.                                           *)
(***************************************************************************)
Procs == {"p1", "p2"}
AppIds == {"a1", "a2"}
Counsellors == {"c1", "c2"}
Students == {"s1", "s2"}
Dates == {"d1", "d2"}
Times == {"t1", "t2", "t3"}
SlotKeys == Counsellors \X Dates \X Times

\* a field the document does not have, and a field holding null
Missing == "missing"
Null == "null"

\* the characters of the time strings: the three slot times, which are also
\* the ids of the slot documents, and what else a time field may hold
Text ==
  [n \in {"t1", "t2", "t3", "padded", "spaces", "", Missing, Null} |->
     CASE n = "t1" -> <<"9", ".", "3", "0">>
       [] n = "t2" -> <<"1", "0", ":", "0", "0">>
       [] n = "t3" -> <<"0", "9", ".", "1", "5">>
       [] n = "padded" -> <<" ", "9", ":", "0", "5", " ">>
       [] n = "spaces" -> <<" ", " ">>
       [] OTHER -> <<>>]

\* ord() of the characters of these strings
Ord ==
  [c \in {" ", ".", "0", "1", "3", "5", "9", ":"} |->
     CASE c = " " -> 32 [] c = "." -> 46 [] c = "0" -> 48 [] c = "1" -> 49
       [] c = "3" -> 51 [] c = "5" -> 53 [] c = "9" -> 57 [] c = ":" -> 58]

VARIABLES
  db,       \* the store client was initialized at import (app.py 33-44)
  smtp,     \* SMTP_HOST, SMTP_PORT and SMTP_FROM are configured
  conc,     \* the server runs requests concurrently
  users,    \* collection users: student id -> profile
  appts,    \* collection appointments: id -> document
  slots,    \* counsellors/{c}/availability/{d}/slots/{t}: key -> document
  notifs,   \* collection notifications, in the order of creation
  emails,   \* the e-mails SMTP accepted, in order
  now,      \* the wall clock (datetime.now()), read at the arrival of a request
  req,      \* the request each server thread is serving
  served,   \* number of requests received
  bookings, \* the slots the students' booking flow has booked since the start
  origin,   \* the slot each appointment was booked at (kept for the properties)
  mood_scores,        \* collection mood_scores, in stream order
  moods,              \* collection moods
  chat_conversations, \* collection chat_conversations
  assessments         \* collection assessments

vars == <<db, smtp, conc, users, appts, slots, notifs, emails, now, req, served,
          bookings, origin, mood_scores, moods, chat_conversations, assessments>>

\* what no handler changes
given == <<origin, mood_scores, moods, chat_conversations, assessments>>
store == <<appts, slots, notifs, emails>>

(***************************************************************************)
(* Documents.  A document that does not exist is the record with           *)
(* exists = FALSE; a field a document lacks, or holds as null or '', is '' *)
(* where the code only tests its truth (`x.get(f) or ...`).                *)
(***************************************************************************)
AbsentAppt ==
  [exists |-> FALSE, counsellorId |-> "", studentId |-> "", userId |-> "",
   studentEmail |-> "", email |-> "", appointmentDate |-> "",
   appointmentTime |-> "", status |-> s_empty, updatedAt |-> -1]

AbsentSlot ==
  [exists |-> FALSE, time |-> "", booked |-> FALSE, bookedBy |-> Missing,
   sessionId |-> Missing, active |-> Missing, updatedAt |-> -1]

AbsentUser == [exists |-> FALSE, email |-> ""]

(***************************************************************************)
(* The students' samples the insights endpoint reads.  A timestamp is a    *)
(* number of half days, <<t>>, or <<>> when the document has none; a score *)
(* is <<n>> or <<>> when float() does not take it.                         *)
(***************************************************************************)
\* the samples as they are when the counsellor endpoints are exercised: s1
\* has a mood score, an older mood of the former schema and both
\* assessments, PHQ-9 taken twice
BaseMoodScores == << [userId |-> "s1", at |-> <<0>>, score |-> <<40>>] >>
BaseMoods == << [user_id |-> "s1", userId |-> Missing, at |-> <<0>>, score |-> <<80>>] >>
BaseChats == << >>
BaseAssessments ==
  << [user_id |-> "s1", userId |-> Missing, type |-> <<"p","h","q","-","9">>,
      at |-> <<0>>, score |-> 12, severity |-> "moderate"],
     [user_id |-> "s1", userId |-> Missing, type |-> <<"G","A","D","-","7">>,
      at |-> <<>>, score |-> 4, severity |-> ""],
     [user_id |-> Missing, userId |-> "s1", type |-> <<"P","H","Q","-","9">>,
      at |-> <<1>>, score |-> 9, severity |-> "mild"] >>

\* who the student of an appointment is and how to reach them: the shapes
\* of appointment documents written by the booking flow and its predecessors
ContactShapes ==
  { [studentId |-> "s1", userId |-> "",   studentEmail |-> "s1@appt", email |-> ""],
    [studentId |-> "s1", userId |-> "s2", studentEmail |-> "",        email |-> ""],
    [studentId |-> "",   userId |-> "s2", studentEmail |-> "",        email |-> ""],
    [studentId |-> "",   userId |-> "",   studentEmail |-> "",        email |-> "old@appt"] }

\* appointments of counsellor c1 as the booking flow creates them; one
\* legacy document carries no time
InitAppts ==
  { [exists |-> TRUE, counsellorId |-> "c1", studentId |-> c.studentId,
     userId |-> c.userId, studentEmail |-> c.studentEmail, email |-> c.email,
     appointmentDate |-> "d1", appointmentTime |-> "t1", status |-> s_pending,
     updatedAt |-> 0] : c \in ContactShapes }
  \cup
  { [exists |-> TRUE, counsellorId |-> "c1", studentId |-> "s1",
     userId |-> "", studentEmail |-> "s1@appt", email |-> "",
     appointmentDate |-> "d1", appointmentTime |-> "", status |-> s_pending,
     updatedAt |-> 0] }

\* the appointment of another counsellor, who sends no request here
OtherAppt ==
  [exists |-> TRUE, counsellorId |-> "c2", studentId |-> "s2", userId |-> "",
   studentEmail |-> "s2@appt", email |-> "", appointmentDate |-> "d1",
   appointmentTime |-> "t1", status |-> s_approved, updatedAt |-> 0]

\* a slot the external booking flow booked for s1
BookedSlot ==
  [exists |-> TRUE, time |-> "t1", booked |-> TRUE, bookedBy |-> "s1",
   sessionId |-> "a1", active |-> "true", updatedAt |-> 0]

\* <<appointment a1, slot of c1 on d1 at t1>> at the start: a1 in each of
\* its shapes, or absent, with the slot booked; and a1 with no slot document
InitScenes ==
  ((InitAppts \cup {AbsentAppt}) \X {BookedSlot})
    \cup { <<a, AbsentSlot>> : a \in {x \in InitAppts :
                                        x.studentEmail # "" /\ x.appointmentTime # ""} }

(***************************************************************************)
(* Requests.  op is the endpoint, pc the index of the next remote call in  *)
(* Steps(op) (0 when the request has answered), resp the answer.  snap,    *)
(* sid, mail, found are the handler's locals appt, student_id,             *)
(* student_email and the result of the slot's exists test.  att and failed *)
(* record which calls the request reached and which of them raised; out is *)
(* the list a read endpoint answers with.  days, fallback and limit are    *)
(* query parameters (<<Missing>> when the query has none); utcnow, daily   *)
(* and points are the insights handler's now, daily/counts and             *)
(* points_before_fallback.                                                 *)
(***************************************************************************)
NewReq(op, id, cid, status, date, time, active) ==
  [op |-> op, pc |-> 0, id |-> id, cid |-> cid, status |-> status,
   date |-> date, time |-> time, active |-> active, snap |-> AbsentAppt,
   sid |-> "", mail |-> "", found |-> FALSE, resp |-> 0, att |-> {},
   failed |-> {}, out |-> <<>>, days |-> <<Missing>>, fallback |-> <<Missing>>,
   limit |-> <<Missing>>, utcnow |-> 0, daily |-> <<>>, points |-> 0]

IdleReq == NewReq("none", "", "", s_empty, "", "", FALSE)

\* complete with the status written after the student was told
CompleteNotifyFirst == <<"read", "email", "notify", "update">>

\* delete with the notification block pasted twice
DeleteNotifiesTwice ==
  <<"read", "freeslot", "lookup", "email", "notify", "notify", "delete">>

\* the remote calls of each handler, in program order
StartSteps == <<"read", "update">>
CompleteSteps == <<"read", "update", "email", "notify">>
DeleteSteps == <<"read", "freeslot", "lookup", "email", "notify", "delete">>
UpdateStatusSteps == <<"read", "update", "lookup", "email", "notify">>
RescheduleSteps == <<"read", "update">>
UpsertSteps == <<"set">>
ToggleSteps == <<"get", "create", "activate">>
GetAvailabilitySteps == <<"slots">>
ListAppointmentsSteps == <<"appointments">>
InsightsSteps ==
  <<"appt", "mood_scores", "moods", "chat_conversations", "assessments">>

Steps(op) ==
  CASE op = "Start" -> StartSteps
    [] op = "Complete" -> CompleteSteps
    [] op = "Delete" -> DeleteSteps
    [] op = "UpdateStatus" -> UpdateStatusSteps
    [] op = "Reschedule" -> RescheduleSteps
    [] op = "Upsert" -> UpsertSteps
    [] op = "Toggle" -> ToggleSteps
    [] op = "GetAvailability" -> GetAvailabilitySteps
    [] op = "ListAppointments" -> ListAppointmentsSteps
    [] op = "Insights" -> InsightsSteps
    [] OTHER -> <<>>

\* the call the request is about to make ("" when it has answered)
At(r) == IF r.pc = 0 THEN "" ELSE Steps(r.op)[r.pc]

\* return <code>
Answer(r, code) == [r EXCEPT !.pc = 0, !.resp = code]

\* the call returned: go on to the next one, or return success after the last
Advance(r, step) ==
  LET r1 == [r EXCEPT !.att = @ \cup {step}]
  IN IF r.pc = Len(Steps(r.op)) THEN Answer(r1, Success)
     ELSE [r1 EXCEPT !.pc = @ + 1]

\* the call raised with no try/except of its own: the handler ends in 500
SwallowRaises(r, step) ==
  Answer([r EXCEPT !.att = @ \cup {step}, !.failed = @ \cup {step}], ServerError)

\* the call raised inside its own try/except: logged, the handler goes on
Swallow(r, step) ==
  Advance([r EXCEPT !.failed = @ \cup {step}], step)

ActiveProcs == IF conc THEN Procs ELSE {"p1"}

Init ==
  /\ db \in BOOLEAN
  /\ smtp \in BOOLEAN
  /\ conc = FALSE
  /\ users = [s \in Students |->
                IF s = "s1" THEN [exists |-> TRUE, email |-> "s1@user"]
                ELSE AbsentUser]
  /\ \E sc \in InitScenes :
        /\ appts = [i \in AppIds |-> IF i = "a1" THEN sc[1] ELSE OtherAppt]
        /\ slots = [k \in SlotKeys |->
                      IF k = <<"c1", "d1", "t1">> THEN sc[2] ELSE AbsentSlot]
  /\ notifs = <<>>
  /\ emails = <<>>
  /\ now = 0
  /\ req = [p \in Procs |-> IdleReq]
  /\ served = 0
  /\ bookings = {}
  /\ origin = [i \in AppIds |->
                 <<appts[i].counsellorId, appts[i].appointmentDate,
                   appts[i].appointmentTime>>]
  /\ mood_scores = BaseMoodScores
  /\ moods = BaseMoods
  /\ chat_conversations = BaseChats
  /\ assessments = BaseAssessments

(***************************************************************************)
(* Request inputs.                                                         *)
(***************************************************************************)
\* counsellorId of the body: missing/empty, the owner of a1, and a
\* counsellor who owns no appointment
CidInputs == {"", "c1", "c3"}

StatusInputs ==
  {s_empty, s_Approved, s_pending, s_confirmed, s_cancelled, s_CANCELED,
   s_in_progress, s_Completed}

\* <<id, counsellorId, status>> of a status request: every status from the
\* owner of a1, and an accepted and a refused one from everybody on every id
UpdateStatusInputs ==
  ({"a1"} \X {"c1"} \X StatusInputs)
    \cup (AppIds \X CidInputs \X {s_Approved, s_in_progress})

\* <<id, counsellorId, <<appointmentDate, appointmentTime>>>> of a reschedule:
\* a move to d2, t2 from everybody on every id, and the bodies lacking the
\* date or the time
RescheduleInputs ==
  (AppIds \X CidInputs \X {<<"d2", "t2">>})
    \cup ({"a1"} \X {"c1", "c3"} \X {<<"", "t2">>, <<"d2", "">>, <<"", "">>})

\* <<counsellorId, dateKey, time>> of a slot request: the slot of c1 on d1
\* at t1, and the bodies lacking one of the three
SlotInputs ==
  { <<"c1", "d1", "t1">>, <<"", "d1", "t1">>, <<"c1", "", "t1">>,
    <<"c1", "d1", "">> }

\* a query parameter that is not sent
NoArg == <<Missing>>

\* request.args.get(name, default)
Arg(v, default) == IF v = NoArg THEN default ELSE v

DigitValue ==
  [c \in {"0","1","2","3","4","5","6","7","8","9"} |->
     CASE c = "0" -> 0 [] c = "1" -> 1 [] c = "2" -> 2 [] c = "3" -> 3
       [] c = "4" -> 4 [] c = "5" -> 5 [] c = "6" -> 6 [] c = "7" -> 7
       [] c = "8" -> 8 [] c = "9" -> 9]

IsDigits(s) == Len(s) > 0 /\ \A i \in 1..Len(s) : s[i] \in DOMAIN DigitValue

RECURSIVE DigitsValue(_)
DigitsValue(s) ==
  IF Len(s) = 0 THEN 0
  ELSE 10 * DigitsValue(SubSeq(s, 1, Len(s) - 1)) + DigitValue[s[Len(s)]]

\* int(s) of a string of digits with an optional sign: <<n>>, or <<>> for
\* ValueError
ParseInt(s) ==
  IF IsDigits(s) THEN <<DigitsValue(s)>>
  ELSE IF Len(s) > 1 /\ s[1] = "-" /\ IsDigits(Tail(s))
  THEN <<0 - DigitsValue(Tail(s))>>
  ELSE IF Len(s) > 1 /\ s[1] = "+" /\ IsDigits(Tail(s))
  THEN <<DigitsValue(Tail(s))>>
  ELSE <<>>

(***************************************************************************)
(* Entry of a handler: the store test and the validation of the body,      *)
(* before the first remote call.  0 when the handler goes on.              *)
(***************************************************************************)
\* the store test after the validation of the body
LifecycleEntryValidatesFirst(r) ==
  IF r.cid = "" THEN BadRequest
  ELSE IF ~db THEN ServerError
  ELSE 0

\* counsellor_start_appointment, _complete_appointment, _delete_appointment,
\* counsellor_appointment_insights
LifecycleEntry(r) ==
  IF ~db THEN ServerError
  ELSE IF r.cid = "" THEN BadRequest
  ELSE 0

\* the status taken as sent
NormStatusRaw(s) == s

\* status = (data.get('status') or '').lower()
NormStatus(s) == Lower(s)

ValidStatuses == {s_pending, s_approved, s_confirmed, s_cancelled, s_canceled}

UpdateStatusEntry(r) ==
  IF ~db THEN ServerError
  ELSE IF NormStatus(r.status) \notin ValidStatuses THEN BadRequest
  ELSE IF r.cid = "" THEN BadRequest
  ELSE 0

RescheduleEntry(r) ==
  IF ~db THEN ServerError
  ELSE IF r.date = "" \/ r.time = "" THEN BadRequest
  ELSE IF r.cid = "" THEN BadRequest
  ELSE 0

\* counsellor_upsert_availability_slot, counsellor_toggle_availability
SlotEntry(r) ==
  IF ~db THEN ServerError
  ELSE IF r.cid = "" \/ r.date = "" \/ r.time = "" THEN BadRequest
  ELSE 0

\* counsellor_get_availability
AvailabilityEntry(r) ==
  IF ~db THEN ServerError
  ELSE IF r.cid = "" \/ r.date = "" THEN BadRequest
  ELSE 0

\* list_counsellor_appointments: limit is parsed first; without a store the
\* answer is an empty list
ListEntry(r) ==
  IF ParseInt(Arg(r.limit, <<"1","0","0">>)) = <<>> THEN ServerError
  ELSE IF r.cid = "" THEN BadRequest
  ELSE IF ~db THEN Success
  ELSE 0

Entry(r) ==
  CASE r.op \in {"Start", "Complete", "Delete", "Insights"} -> LifecycleEntry(r)
    [] r.op = "UpdateStatus" -> UpdateStatusEntry(r)
    [] r.op = "Reschedule" -> RescheduleEntry(r)
    [] r.op \in {"Upsert", "Toggle"} -> SlotEntry(r)
    [] r.op = "GetAvailability" -> AvailabilityEntry(r)
    [] r.op = "ListAppointments" -> ListEntry(r)

\* a request arrives at thread p
\* thread p is free to take a request
Idle(p) == p \in ActiveProcs /\ req[p].pc = 0 /\ served < MaxRequests

Begin(p, r) ==
  /\ served' = served + 1
  /\ now' = now + 1
  /\ req' = [req EXCEPT ![p] =
               IF Entry(r) # 0 THEN Answer(r, Entry(r)) ELSE [r EXCEPT !.pc = 1]]
  /\ UNCHANGED <<given, db, smtp, conc, users, bookings, appts, slots, notifs, emails>>

BeginStart(p) ==
  /\ Idle(p)
  /\ \E id \in AppIds, cid \in CidInputs :
       Begin(p, NewReq("Start", id, cid, s_empty, "", "", FALSE))

BeginComplete(p) ==
  /\ Idle(p)
  /\ \E id \in AppIds, cid \in CidInputs :
       Begin(p, NewReq("Complete", id, cid, s_empty, "", "", FALSE))

BeginDelete(p) ==
  /\ Idle(p)
  /\ \E id \in AppIds, cid \in CidInputs :
       Begin(p, NewReq("Delete", id, cid, s_empty, "", "", FALSE))

BeginUpdateStatus(p) ==
  /\ Idle(p)
  /\ \E i \in UpdateStatusInputs :
       Begin(p, NewReq("UpdateStatus", i[1], i[2], i[3], "", "", FALSE))

BeginReschedule(p) ==
  /\ Idle(p)
  /\ \E i \in RescheduleInputs :
       Begin(p, NewReq("Reschedule", i[1], i[2], s_empty, i[3][1], i[3][2], FALSE))

BeginUpsert(p) ==
  /\ Idle(p)
  /\ \E i \in SlotInputs :
       Begin(p, NewReq("Upsert", "", i[1], s_empty, i[2], i[3], FALSE))

BeginToggle(p) ==
  /\ Idle(p)
  /\ \E i \in SlotInputs, a \in BOOLEAN :
       Begin(p, NewReq("Toggle", "", i[1], s_empty, i[2], i[3], a))

DaysInputs ==
  {NoArg, <<"a","b","c">>, <<"3">>, <<"7">>, <<"1","0">>, <<"3","0">>,
   <<"9","0">>, <<"-","5">>}

FallbackInputs == {NoArg, <<"T","r","u","e">>, <<"1">>, <<"n","o">>}

\* an insights request with no days and no fallback in the query
BeginInsights(p) ==
  /\ Idle(p)
  /\ \E id \in AppIds, cid \in CidInputs :
       Begin(p, NewReq("Insights", id, cid, s_empty, "", "", FALSE))

\* an insights request of the owner of a1 with days, or with fallback over
\* the default window and the window of 7 days
BeginInsightsQuery(p) ==
  /\ Idle(p)
  /\ \E days \in DaysInputs, fallback \in FallbackInputs :
       /\ days \in {NoArg, <<"7">>} \/ fallback = NoArg
       /\ Begin(p, [NewReq("Insights", "a1", "c1", s_empty, "", "", FALSE)
                       EXCEPT !.days = days, !.fallback = fallback])

LimitInputs == {NoArg, <<"1">>, <<"2">>, <<"a","b","c">>}

BeginListAppointments(p) ==
  /\ Idle(p)
  /\ \E cid \in CidInputs, limit \in LimitInputs :
       Begin(p, [NewReq("ListAppointments", "", cid, s_empty, "", "", FALSE)
                   EXCEPT !.limit = limit])

BeginGetAvailability(p) ==
  /\ Idle(p)
  /\ \E cid \in {"", "c1"}, date \in {"", "d1"} :
       Begin(p, NewReq("GetAvailability", "", cid, s_empty, date, "", FALSE))

(***************************************************************************)
(* The lifecycle handlers' first call: snap = ref.get(), then the exists   *)
(* and ownership tests.                                                    *)
(***************************************************************************)
\* absence reported as NotFound by every handler
OnAbsentNotFound(op) == NotFound

\* what a handler answers when the appointment does not exist
OnAbsent(op) == IF op = "Delete" THEN Success ELSE NotFound

\* the ownership test left out
OwnsAnyone(appt, cid) == TRUE

\* appt.get('counsellorId') != counsellor_id
Owns(appt, cid) == appt.counsellorId = cid

\* the legacy userId taken before studentId
StudentIdLegacyFirst(appt) ==
  IF appt.userId # "" THEN appt.userId ELSE appt.studentId

\* appt.get('studentId') or appt.get('userId')
StudentId(appt) == IF appt.studentId # "" THEN appt.studentId ELSE appt.userId

\* appt.get('studentEmail') or appt.get('email') or ''
StudentEmail(appt) ==
  IF appt.studentEmail # "" THEN appt.studentEmail ELSE appt.email

ReadAppt(p) ==
  LET r == req[p]
      snap == appts[r.id]
  IN /\ At(r) = "read"
     /\ req' = [req EXCEPT ![p] =
                  IF ~snap.exists THEN Answer(r, OnAbsent(r.op))
                  ELSE IF ~Owns(snap, r.cid) THEN Answer(r, Forbidden)
                  ELSE Advance([r EXCEPT !.snap = snap,
                                         !.sid = StudentId(snap),
                                         !.mail = StudentEmail(snap)], "read")]
     /\ UNCHANGED <<given, db, smtp, conc, users, bookings, appts, slots, notifs, emails, now, served>>

(***************************************************************************)
(* ref.update({...}): the authoritative write of start, complete, status   *)
(* and reschedule.  update() of a document that does not exist raises,     *)
(* which the handler's outer except turns into 500.                        *)
(***************************************************************************)
\* a reschedule that puts the appointment back to pending
PatchResetsStatus(r, doc) ==
  CASE r.op = "Start" ->
         [doc EXCEPT !.status = s_in_progress, !.updatedAt = now]
    [] r.op = "Complete" ->
         [doc EXCEPT !.status = s_completed, !.updatedAt = now]
    [] r.op = "UpdateStatus" ->
         [doc EXCEPT !.status = NormStatus(r.status), !.updatedAt = now]
    [] r.op = "Reschedule" ->
         [doc EXCEPT !.appointmentDate = r.date, !.appointmentTime = r.time,
                     !.status = s_pending, !.updatedAt = now]

\* a start that leaves a completed appointment completed
PatchStartsOpenOnly(r, doc) ==
  CASE r.op = "Start" ->
         [doc EXCEPT !.status = IF @ = s_completed THEN @ ELSE s_in_progress,
                     !.updatedAt = now]
    [] r.op = "Complete" ->
         [doc EXCEPT !.status = s_completed, !.updatedAt = now]
    [] r.op = "UpdateStatus" ->
         [doc EXCEPT !.status = NormStatus(r.status), !.updatedAt = now]
    [] r.op = "Reschedule" ->
         [doc EXCEPT !.appointmentDate = r.date, !.appointmentTime = r.time,
                     !.updatedAt = now]

Patch(r, doc) ==
  CASE r.op = "Start" ->
         [doc EXCEPT !.status = s_in_progress, !.updatedAt = now]
    [] r.op = "Complete" ->
         [doc EXCEPT !.status = s_completed, !.updatedAt = now]
    [] r.op = "UpdateStatus" ->
         [doc EXCEPT !.status = NormStatus(r.status), !.updatedAt = now]
    [] r.op = "Reschedule" ->
         [doc EXCEPT !.appointmentDate = r.date, !.appointmentTime = r.time,
                     !.updatedAt = now]

UpdateAppt(p) ==
  LET r == req[p]
  IN /\ At(r) = "update"
     /\ IF appts[r.id].exists
        THEN /\ appts' = [appts EXCEPT ![r.id] = Patch(r, @)]
             /\ req' = [req EXCEPT ![p] = Advance(r, "update")]
        ELSE /\ appts' = appts
             /\ req' = [req EXCEPT ![p] =
                          Answer([r EXCEPT !.att = @ \cup {"update"},
                                           !.failed = @ \cup {"update"}],
                                 ServerError)]
     /\ UNCHANGED <<given, db, smtp, conc, users, bookings, slots, notifs, emails, now, served>>

(***************************************************************************)
(* Side effects of complete, status and delete.                            *)
(***************************************************************************)
\* a step whose condition is false makes no call
Skip(r) ==
  IF r.pc = Len(Steps(r.op)) THEN Answer(r, Success) ELSE [r EXCEPT !.pc = @ + 1]

\* the user-profile fallback for the e-mail address (status and delete)
LookupUser(p) ==
  LET r == req[p]
      u == users[r.sid]
  IN /\ At(r) = "lookup"
     /\ \E fail \in BOOLEAN :
          req' = [req EXCEPT ![p] =
                    IF r.mail = "" /\ db /\ r.sid # ""
                    THEN IF fail THEN Swallow(r, "lookup")
                         ELSE IF u.exists
                              THEN Advance([r EXCEPT !.mail = u.email], "lookup")
                              ELSE Advance(r, "lookup")
                    ELSE Skip(r)]
     /\ UNCHANGED <<given, db, smtp, conc, users, bookings, appts, slots, notifs, emails, now, served>>

\* status_nice
StatusNice(status) ==
  IF status \in {s_approved, s_confirmed} THEN s_confirmed
  ELSE IF status \in {s_cancelled, s_canceled} THEN s_cancelled
  ELSE status

\* the word the message of a request is about
Word(r) ==
  CASE r.op = "Complete" -> s_completed
    [] r.op = "Delete" -> s_cancelled
    [] r.op = "UpdateStatus" -> StatusNice(NormStatus(r.status))

\* the message handed to send_email
Mail(r) ==
  [to |-> r.mail, about |-> r.op, date |-> r.snap.appointmentDate,
   time |-> r.snap.appointmentTime, word |-> Word(r)]

\* if student_email: send_email(...).  send_email returns False without a
\* connection when SMTP is not configured, and catches what SMTP raises.
SendEmail(p) ==
  LET r == req[p]
  IN /\ At(r) = "email"
     /\ \E fail \in BOOLEAN :
          IF r.mail = ""
          THEN /\ req' = [req EXCEPT ![p] = Skip(r)]
               /\ emails' = emails
          ELSE IF ~smtp
          THEN /\ req' = [req EXCEPT ![p] = Advance(r, "email")]
               /\ emails' = emails
          ELSE IF fail
          THEN /\ req' = [req EXCEPT ![p] = Swallow(r, "email")]
               /\ emails' = emails
          ELSE /\ req' = [req EXCEPT ![p] = Advance(r, "email")]
               /\ emails' = Append(emails, Mail(r))
     /\ UNCHANGED <<given, db, smtp, conc, users, bookings, appts, slots, notifs, now, served>>

\* a notification without a status field
NoStatus == <<Missing>>

NotificationType(op) ==
  CASE op = "Complete" -> "appointment_completed"
    [] op = "Delete" -> "appointment_deleted"
    [] op = "UpdateStatus" -> "appointment_status"

\* the document handed to db.collection('notifications').add
Notification(r) ==
  [userId |-> r.sid,
   type |-> NotificationType(r.op),
   title |-> CASE r.op = "Complete" -> [text |-> "Session completed", word |-> s_empty]
               [] r.op = "Delete" -> [text |-> "Appointment cancelled", word |-> s_empty]
               [] r.op = "UpdateStatus" -> [text |-> "Appointment", word |-> Word(r)],
   body |-> CASE r.op = "Complete" ->
                   [text |-> "Please leave quick feedback for your counsellor.",
                    date |-> "", time |-> "", word |-> s_empty]
              [] r.op = "Delete" ->
                   [text |-> "Your session on {date} at {time} was cancelled.",
                    date |-> r.snap.appointmentDate,
                    time |-> r.snap.appointmentTime, word |-> s_empty]
              [] r.op = "UpdateStatus" ->
                   [text |-> "Your session on {date} at {time} is {word}.",
                    date |-> r.snap.appointmentDate,
                    time |-> r.snap.appointmentTime, word |-> Word(r)],
   appointmentId |-> r.id,
   status |-> IF r.op = "UpdateStatus" THEN NormStatus(r.status) ELSE NoStatus,
   createdAt |-> now,
   read |-> FALSE]

\* if student_id: try: notifications.add(...) except: log
WriteNotification(p) ==
  LET r == req[p]
  IN /\ At(r) = "notify"
     /\ \E fail \in BOOLEAN :
          IF r.sid = ""
          THEN /\ req' = [req EXCEPT ![p] = Skip(r)]
               /\ notifs' = notifs
          ELSE IF fail
          THEN /\ req' = [req EXCEPT ![p] = Swallow(r, "notify")]
               /\ notifs' = notifs
          ELSE /\ req' = [req EXCEPT ![p] = Advance(r, "notify")]
               /\ notifs' = Append(notifs, Notification(r))
     /\ UNCHANGED <<given, db, smtp, conc, users, bookings, appts, slots, emails, now, served>>

(***************************************************************************)
(* Delete: free the slot of the appointment as read, and remove the        *)
(* appointment.                                                            *)
(***************************************************************************)
\* the slot of an appointment document
SlotOf(appt) == <<appt.counsellorId, appt.appointmentDate, appt.appointmentTime>>

\* the slot reopened with the booker left on it
FreedKeepsBooker(slot) == [slot EXCEPT !.booked = FALSE, !.updatedAt = now]

\* slot_ref.update({'booked': False, 'bookedBy': None, 'sessionId': None, ...})
Freed(slot) ==
  [slot EXCEPT !.booked = FALSE, !.bookedBy = Null, !.sessionId = Null,
               !.updatedAt = now]

FreeSlotOfAppt(p) ==
  LET r == req[p]
      k == SlotOf(r.snap)
  IN /\ At(r) = "freeslot"
     /\ \E fail \in BOOLEAN :
          IF r.snap.appointmentDate = "" \/ r.snap.appointmentTime = ""
             \/ r.snap.counsellorId = ""
          THEN /\ req' = [req EXCEPT ![p] = Skip(r)]
               /\ slots' = slots
          ELSE IF fail
          THEN /\ req' = [req EXCEPT ![p] = Swallow(r, "freeslot")]
               /\ slots' = slots
          ELSE /\ req' = [req EXCEPT ![p] = Advance(r, "freeslot")]
               /\ slots' = IF slots[k].exists
                           THEN [slots EXCEPT ![k] = Freed(@)]
                           ELSE slots
     /\ UNCHANGED <<given, db, smtp, conc, users, bookings, appts, notifs, emails, now, served>>

\* ref.delete(); deleting a document that is gone succeeds
DeleteAppt(p) ==
  LET r == req[p]
  IN /\ At(r) = "delete"
     /\ appts' = [appts EXCEPT ![r.id] = AbsentAppt]
     /\ req' = [req EXCEPT ![p] = Advance(r, "delete")]
     /\ UNCHANGED <<given, db, smtp, conc, users, bookings, slots, notifs, emails, now, served>>

(***************************************************************************)
(* The availability slot handlers.                                         *)
(***************************************************************************)
SlotKey(r) == <<r.cid, r.date, r.time>>

\* the same set() without merge=True: the document is replaced
SetNoMerge(slot, time) ==
  [AbsentSlot EXCEPT !.exists = TRUE, !.time = time, !.booked = FALSE,
                     !.updatedAt = now]

\* ref.set({'time': time, 'booked': False, 'updatedAt': now}, merge=True)
MergeSet(slot, time) ==
  [slot EXCEPT !.exists = TRUE, !.time = time, !.booked = FALSE,
               !.updatedAt = now]

UpsertSlot(p) ==
  LET r == req[p]
  IN /\ At(r) = "set"
     /\ slots' = [slots EXCEPT ![SlotKey(r)] = MergeSet(@, r.time)]
     /\ req' = [req EXCEPT ![p] = Advance(r, "set")]
     /\ UNCHANGED <<given, db, smtp, conc, users, bookings, appts, notifs, emails, now, served>>

\* ref.get().exists
ToggleGet(p) ==
  LET r == req[p]
  IN /\ At(r) = "get"
     /\ req' = [req EXCEPT ![p] =
                  Advance([r EXCEPT !.found = slots[SlotKey(r)].exists], "get")]
     /\ UNCHANGED <<given, db, smtp, conc, users, bookings, appts, slots, notifs, emails, now, served>>

\* ref.set({'time': time, 'booked': False}): the whole document is replaced
Created(time) == [AbsentSlot EXCEPT !.exists = TRUE, !.time = time]

ToggleCreate(p) ==
  LET r == req[p]
  IN /\ At(r) = "create"
     /\ IF r.found
        THEN /\ req' = [req EXCEPT ![p] = Skip(r)]
             /\ slots' = slots
        ELSE /\ req' = [req EXCEPT ![p] = Advance(r, "create")]
             /\ slots' = [slots EXCEPT ![SlotKey(r)] = Created(r.time)]
     /\ UNCHANGED <<given, db, smtp, conc, users, bookings, appts, notifs, emails, now, served>>

\* active stored as true whatever the body says
ActiveTruthy(a) == "true"

\* bool(data.get('active')) as the store holds it
ActiveValue(a) == IF a THEN "true" ELSE "false"

\* ref.update({'active': active, 'updatedAt': now})
ToggleActivate(p) ==
  LET r == req[p]
      k == SlotKey(r)
  IN /\ At(r) = "activate"
     /\ IF slots[k].exists
        THEN /\ slots' = [slots EXCEPT ![k] =
                            [@ EXCEPT !.active = ActiveValue(r.active),
                                      !.updatedAt = now]]
             /\ req' = [req EXCEPT ![p] = Advance(r, "activate")]
        ELSE /\ slots' = slots
             /\ req' = [req EXCEPT ![p] =
                          Answer([r EXCEPT !.att = @ \cup {"activate"},
                                           !.failed = @ \cup {"activate"}],
                                 ServerError)]
     /\ UNCHANGED <<given, db, smtp, conc, users, bookings, appts, notifs, emails, now, served>>

(***************************************************************************)
(* counsellor_appointment_insights: the daily mood averages of the         *)
(* appointment's student over the last days, and the latest assessments.   *)
(***************************************************************************)
Min(a, b) == IF a < b THEN a ELSE b
Max(a, b) == IF a > b THEN a ELSE b

\* the window taken as asked, not clamped
DaysParamAsAsked(r) ==
  LET n == ParseInt(Arg(r.days, <<"3","0">>))
  IN IF n = <<>> THEN DefaultDays ELSE Max(1, n[1])

\* days_param: int(days) or 30 on ValueError, clamped into [7, 30]
DaysParam(r) ==
  LET n == ParseInt(Arg(r.days, <<"3","0">>))
  IN Max(MinDays, Min(MaxDays, IF n = <<>> THEN DefaultDays ELSE n[1]))

\* the legacy sources read whenever fallback is asked for
FallbackAlways(r) ==
  Lower(Arg(r.fallback, <<"f","a","l","s","e">>))
    \in {<<"1">>, <<"t","r","u","e">>, <<"y","e","s">>}

\* fallback and points_before_fallback == 0
Fallback(r) ==
  /\ Lower(Arg(r.fallback, <<"f","a","l","s","e">>))
       \in {<<"1">>, <<"t","r","u","e">>, <<"y","e","s">>}
  /\ r.points = 0

\* dt.date() of a timestamp in half days
Day(t) == t \div 2

\* start = now - timedelta(days=days_param)
Start(r) == r.utcnow - 2 * DaysParam(r)

\* add_point takes the sample: it has a timestamp not before start and a
\* score float() takes
Accepted(r, at, score) == at # <<>> /\ at[1] >= Start(r) /\ score # <<>>

\* add_point(dt, score) on daily/counts, kept as day -> [sum, n]
AddPoint(r, daily, at, score) ==
  IF ~Accepted(r, at, score) THEN daily
  ELSE LET d == Day(at[1])
       IN [x \in (DOMAIN daily) \cup {d} |->
             IF x # d THEN daily[x]
             ELSE IF d \in DOMAIN daily
             THEN [sum |-> daily[d].sum + score[1], n |-> daily[d].n + 1]
             ELSE [sum |-> score[1], n |-> 1]]

\* the loop over the documents of a stream
RECURSIVE AddPoints(_, _, _)
AddPoints(r, daily, docs) ==
  IF Len(docs) = 0 THEN daily
  ELSE AddPoints(r, AddPoint(r, daily, docs[1].at, docs[1].score), Tail(docs))

\* appt_ref.get(), the exists, ownership and studentId tests, now = utcnow()
InsightsAppt(p) ==
  LET r == req[p]
      snap == appts[r.id]
  IN /\ At(r) = "appt"
     /\ req' = [req EXCEPT ![p] =
                  IF ~snap.exists THEN Answer(r, NotFound)
                  ELSE IF ~Owns(snap, r.cid) THEN Answer(r, Forbidden)
                  ELSE IF snap.studentId = "" THEN Answer(r, BadRequest)
                  ELSE Advance([r EXCEPT !.snap = snap, !.sid = snap.studentId,
                                         !.utcnow = now], "appt")]
     /\ UNCHANGED <<given, db, smtp, conc, users, bookings, appts, slots, notifs, emails, now, served>>

\* source A: the stream delivers its documents, or raises after some of
\* them, which is logged
InsightsMoodScores(p) ==
  LET r == req[p]
      Mine(d) == d.userId = r.sid
      docs == SelectSeq(mood_scores, Mine)
  IN /\ At(r) = "mood_scores"
     /\ \E k \in 0..Len(docs) :
          LET got == SubSeq(docs, 1, k)
              r1 == [r EXCEPT
                       !.daily = AddPoints(r, <<>>, got),
                       !.points = Cardinality({ i \in 1..k :
                                     Accepted(r, got[i].at, got[i].score) })]
          IN req' = [req EXCEPT ![p] =
                       IF k < Len(docs) THEN Swallow(r1, "mood_scores")
                       ELSE Advance(r1, "mood_scores")]
     /\ UNCHANGED <<given, db, smtp, conc, users, bookings, appts, slots, notifs, emails, now, served>>

\* source B: moods by user_id, then by userId
InsightsMoods(p) ==
  LET r == req[p]
      ByUser_id(d) == d.user_id = r.sid
      ByUserId(d) == d.userId = r.sid
      docs == SelectSeq(moods, ByUser_id) \o SelectSeq(moods, ByUserId)
  IN /\ At(r) = "moods"
     /\ \E k \in 0..Len(docs) :
          LET r1 == [r EXCEPT !.daily = AddPoints(r, @, SubSeq(docs, 1, k))]
          IN req' = [req EXCEPT ![p] =
                       IF ~Fallback(r) THEN Skip(r)
                       ELSE IF k < Len(docs) THEN Swallow(r1, "moods")
                       ELSE Advance(r1, "moods")]
     /\ UNCHANGED <<given, db, smtp, conc, users, bookings, appts, slots, notifs, emails, now, served>>

\* a sentiment score in [-1, 1] put on the scale of 0 to 100
NormScore(score) ==
  IF score = <<>> THEN <<>>
  ELSE IF 0 - 1 <= score[1] /\ score[1] <= 1 THEN <<(score[1] + 1) * 50>>
  ELSE score

\* source C: chat_conversations sentiment
InsightsChats(p) ==
  LET r == req[p]
      Mine(d) == d.user_id = r.sid
      docs == SelectSeq(chat_conversations, Mine)
      normed == [i \in 1..Len(docs) |->
                   [at |-> docs[i].at, score |-> NormScore(docs[i].score)]]
  IN /\ At(r) = "chat_conversations"
     /\ \E k \in 0..Len(docs) :
          LET r1 == [r EXCEPT !.daily = AddPoints(r, @, SubSeq(normed, 1, k))]
          IN req' = [req EXCEPT ![p] =
                       IF ~Fallback(r) THEN Skip(r)
                       ELSE IF k < Len(docs) THEN Swallow(r1, "chat_conversations")
                       ELSE Advance(r1, "chat_conversations")]
     /\ UNCHANGED <<given, db, smtp, conc, users, bookings, appts, slots, notifs, emails, now, served>>

\* round(daily[day] / counts[day], 2), in hundredths
Round2(b) == (200 * b.sum + b.n) \div (2 * b.n)

\* the last days_param days, oldest first; avg is <<>> for None
Trend(r) ==
  LET n == DaysParam(r)
  IN [i \in 1..n |->
        LET d == Day(r.utcnow) - (n - i)
        IN [date |-> d,
            avg |-> IF d \in DOMAIN r.daily /\ r.daily[d].n > 0
                    THEN <<Round2(r.daily[d])>> ELSE <<>>]]

\* str.upper()
UpperChar(c) ==
  IF \E u \in DOMAIN UpperToLower : UpperToLower[u] = c
  THEN CHOOSE u \in DOMAIN UpperToLower : UpperToLower[u] = c
  ELSE c

Upper(s) == [i \in 1..Len(s) |-> UpperChar(s[i])]

AssessmentTypes == { <<"P","H","Q","-","9">>, <<"G","A","D","-","7">> }

\* latest / latest_ts after the documents of the two streams
RECURSIVE Latest(_, _)
Latest(acc, docs) ==
  IF Len(docs) = 0 THEN acc
  ELSE LET a == docs[1]
           t == Upper(a.type)
       IN IF t \notin AssessmentTypes THEN Latest(acc, Tail(docs))
          ELSE IF acc[t].ts = <<>> \/ (a.at # <<>> /\ a.at[1] > acc[t].ts[1])
          THEN Latest([acc EXCEPT ![t] =
                         [ts |-> a.at,
                          val |-> <<[score |-> a.score, severity |-> a.severity]>>]],
                      Tail(docs))
          ELSE Latest(acc, Tail(docs))

\* the assessments streams (no try of their own) and the answer
InsightsAssessments(p) ==
  LET r == req[p]
      ByUser_id(d) == d.user_id = r.sid
      ByUserId(d) == d.userId = r.sid
      docs == SelectSeq(assessments, ByUser_id) \o SelectSeq(assessments, ByUserId)
      latest == Latest([t \in AssessmentTypes |-> [ts |-> <<>>, val |-> <<>>]], docs)
  IN /\ At(r) = "assessments"
     /\ \E fail \in BOOLEAN :
          req' = [req EXCEPT ![p] =
                    IF fail
                    THEN Answer([r EXCEPT !.att = @ \cup {"assessments"},
                                          !.failed = @ \cup {"assessments"}],
                                ServerError)
                    ELSE Advance([r EXCEPT !.out =
                                    <<Trend(r),
                                      [phq9 |-> latest[<<"P","H","Q","-","9">>].val,
                                       gad7 |-> latest[<<"G","A","D","-","7">>].val]>>],
                                 "assessments")]
     /\ UNCHANGED <<given, db, smtp, conc, users, bookings, appts, slots, notifs, emails, now, served>>

(***************************************************************************)
(* counsellor_get_availability: the slots of a day, times normalized,      *)
(* sorted by time.                                                         *)
(***************************************************************************)
\* the sequences that hold each element of S once
Orders(S) ==
  { q \in [1..Cardinality(S) -> S] : \A i, j \in DOMAIN q : q[i] = q[j] => i = j }

RECURSIVE LStrip(_)
LStrip(s) == IF Len(s) > 0 /\ s[1] = " " THEN LStrip(Tail(s)) ELSE s

RECURSIVE RStrip(_)
RStrip(s) ==
  IF Len(s) > 0 /\ s[Len(s)] = " " THEN RStrip(SubSeq(s, 1, Len(s) - 1)) ELSE s

\* str.strip()
Strip(s) == RStrip(LStrip(s))

\* str.replace('.', ':')
ReplaceDot(s) == [i \in 1..Len(s) |-> IF s[i] = "." THEN ":" ELSE s[i]]

\* norm_time(t): str(t or '').strip().replace('.', ':')
NormTime(t) == ReplaceDot(Strip(Text[t]))

\* it.get('time') or it['id']
TimeOrId(slot, id) == IF Text[slot.time] = <<>> THEN id ELSE slot.time

\* a < b for str
RECURSIVE StrLess(_, _)
StrLess(a, b) ==
  IF Len(b) = 0 THEN FALSE
  ELSE IF Len(a) = 0 THEN TRUE
  ELSE IF a[1] = b[1] THEN StrLess(Tail(a), Tail(b))
  ELSE Ord[a[1]] < Ord[b[1]]

\* items.sort(key=lambda x: str(x.get('time') or '')): stable
RECURSIVE Insert(_, _)
Insert(x, sorted) ==
  IF Len(sorted) = 0 THEN <<x>>
  ELSE IF StrLess(x.time, sorted[1].time) THEN <<x>> \o sorted
  ELSE <<sorted[1]>> \o Insert(x, Tail(sorted))

RECURSIVE SortByTime(_)
SortByTime(items) ==
  IF Len(items) = 0 THEN <<>>
  ELSE Insert(items[Len(items)], SortByTime(SubSeq(items, 1, Len(items) - 1)))

\* the item made of a slot document
Item(id, slot) == [id |-> id, time |-> NormTime(TimeOrId(slot, id)), doc |-> slot]

GetAvailabilitySlots(p) ==
  LET r == req[p]
      ids == { t \in Times : slots[<<r.cid, r.date, t>>].exists }
  IN /\ At(r) = "slots"
     /\ \E snap \in Orders(ids) :
          LET items == [i \in 1..Len(snap) |->
                          Item(snap[i], slots[<<r.cid, r.date, snap[i]>>])]
          IN req' = [req EXCEPT ![p] =
                       Advance([r EXCEPT !.out = SortByTime(items)], "slots")]
     /\ UNCHANGED <<given, db, smtp, conc, users, bookings, appts, slots, notifs, emails, now, served>>

(***************************************************************************)
(* list_counsellor_appointments: the counsellor's appointments, at most     *)
(* limit of them, sorted by date and time.                                 *)
(***************************************************************************)
\* the documents in the order of the stream
IdOrder == <<"a1", "a2">>

\* str order of the dates
DateRank == [d \in Dates \cup {""} |-> CASE d = "" -> 0 [] d = "d1" -> 1 [] d = "d2" -> 2]

\* (date, time) of x before (date, time) of y
KeyLess(x, y) ==
  \/ DateRank[x.appointmentDate] < DateRank[y.appointmentDate]
  \/ /\ x.appointmentDate = y.appointmentDate
     /\ StrLess(Text[x.appointmentTime], Text[y.appointmentTime])

\* items.sort(key=lambda x: (date, time)): stable
RECURSIVE InsertAppt(_, _)
InsertAppt(x, sorted) ==
  IF Len(sorted) = 0 THEN <<x>>
  ELSE IF KeyLess(x, sorted[1]) THEN <<x>> \o sorted
  ELSE <<sorted[1]>> \o InsertAppt(x, Tail(sorted))

RECURSIVE SortByDateTime(_)
SortByDateTime(items) ==
  IF Len(items) = 0 THEN <<>>
  ELSE InsertAppt(items[Len(items)],
                  SortByDateTime(SubSeq(items, 1, Len(items) - 1)))

\* the stream of the where/limit query, which may raise, and the sort
ListAppointments(p) ==
  LET r == req[p]
      Mine(i) == appts[i].exists /\ appts[i].counsellorId = r.cid
      ids == SelectSeq(IdOrder, Mine)
      limit_n == ParseInt(Arg(r.limit, <<"1","0","0">>))[1]
      got == SubSeq(ids, 1, Min(limit_n, Len(ids)))
      items == [i \in 1..Len(got) |->
                  [id |-> got[i],
                   appointmentDate |-> appts[got[i]].appointmentDate,
                   appointmentTime |-> appts[got[i]].appointmentTime]]
  IN /\ At(r) = "appointments"
     /\ \E fail \in BOOLEAN :
          req' = [req EXCEPT ![p] =
                    IF fail THEN SwallowRaises(r, "appointments")
                    ELSE Advance([r EXCEPT !.out = SortByDateTime(items)],
                                 "appointments")]
     /\ UNCHANGED <<given, db, smtp, conc, users, bookings, appts, slots, notifs, emails, now, served>>

(***************************************************************************)
(* The students' booking flow, which writes the slots from outside these   *)
(* handlers: it takes a slot that exists and is free and marks it booked   *)
(* with the student and the session.                                       *)
(***************************************************************************)
BookSlot(k) ==
  /\ db
  /\ slots[k].exists /\ ~slots[k].booked
  /\ slots' = [slots EXCEPT ![k] =
                 [@ EXCEPT !.booked = TRUE, !.bookedBy = "s2",
                           !.sessionId = "a3", !.updatedAt = now]]
  /\ bookings' = bookings \cup {k}
  /\ UNCHANGED <<given, db, smtp, conc, users, appts, notifs, emails, now, req, served>>

Next ==
  \E p \in Procs :
       \/ BeginStart(p)
       \/ BeginComplete(p)
       \/ BeginDelete(p)
       \/ BeginUpdateStatus(p)
       \/ BeginReschedule(p)
       \/ BeginUpsert(p)
       \/ BeginToggle(p)
       \/ ReadAppt(p)
       \/ UpdateAppt(p)
       \/ LookupUser(p)
       \/ SendEmail(p)
       \/ WriteNotification(p)
       \/ FreeSlotOfAppt(p)
       \/ DeleteAppt(p)
       \/ UpsertSlot(p)
       \/ ToggleGet(p)
       \/ ToggleCreate(p)
       \/ ToggleActivate(p)
       \/ BeginGetAvailability(p)
       \/ GetAvailabilitySlots(p)
       \/ BeginListAppointments(p)
       \/ ListAppointments(p)
       \/ BeginInsights(p)
       \/ InsightsAppt(p)
       \/ InsightsMoodScores(p)
       \/ InsightsMoods(p)
       \/ InsightsChats(p)
       \/ InsightsAssessments(p)

Spec == Init /\ [][Next]_vars

(***************************************************************************)
(* The server with two threads serving requests at the same time (the      *)
(* handlers take no lock and use no transaction), while students book.     *)
(***************************************************************************)
\* <<appointment a1, slot of c1 on d1 at t1>> at the start of the concurrent
\* runs: a1 with a student to tell, its slot booked or not yet created
ConcScenes ==
  { sc \in InitScenes : sc[1].exists /\ sc[1].studentId = "s1"
                          /\ sc[1].studentEmail # "" /\ sc[1].appointmentTime # "" }

InitConc ==
  /\ db = TRUE
  /\ smtp = TRUE
  /\ conc = TRUE
  /\ users = [s \in Students |->
                IF s = "s1" THEN [exists |-> TRUE, email |-> "s1@user"]
                ELSE AbsentUser]
  /\ \E sc \in ConcScenes :
        /\ appts = [i \in AppIds |-> IF i = "a1" THEN sc[1] ELSE OtherAppt]
        /\ slots = [k \in SlotKeys |->
                      IF k = <<"c1", "d1", "t1">> THEN sc[2] ELSE AbsentSlot]
  /\ notifs = <<>>
  /\ emails = <<>>
  /\ now = 0
  /\ req = [p \in Procs |-> IdleReq]
  /\ served = 0
  /\ bookings = {}
  /\ origin = [i \in AppIds |->
                 <<appts[i].counsellorId, appts[i].appointmentDate,
                   appts[i].appointmentTime>>]
  /\ mood_scores = BaseMoodScores
  /\ moods = BaseMoods
  /\ chat_conversations = BaseChats
  /\ assessments = BaseAssessments

NextConc ==
  \/ Next
  \/ \E k \in SlotKeys : BookSlot(k)

SpecConc == InitConc /\ [][NextConc]_vars

(***************************************************************************)
(* The read endpoints, served one at a time over the stores as other       *)
(* writers may have left them: slot documents of c1 on d1 whose time field *)
(* is any of the strings of Text, is null or is missing.                   *)
(***************************************************************************)
TimeFields == {"t1", "t2", "t3", "padded", "spaces", "", Missing, Null}

\* a free slot document with the time field f
SlotWithTime(f) ==
  [exists |-> TRUE, time |-> f, booked |-> FALSE, bookedBy |-> Missing,
   sessionId |-> Missing, active |-> "true", updatedAt |-> 0]

InitRead ==
  /\ db \in BOOLEAN
  /\ smtp = TRUE
  /\ conc = FALSE
  /\ users = [s \in Students |->
                IF s = "s1" THEN [exists |-> TRUE, email |-> "s1@user"]
                ELSE AbsentUser]
  /\ appts = [i \in AppIds |->
                IF i = "a1" THEN CHOOSE a \in InitAppts :
                                   a.studentEmail # "" /\ a.appointmentTime # ""
                ELSE OtherAppt]
  /\ \E f \in [Times -> TimeFields \cup {"absent"}], other \in BOOLEAN :
        slots = [k \in SlotKeys |->
                   IF k[1] = "c1" /\ k[2] = "d1"
                   THEN IF f[k[3]] = "absent" THEN AbsentSlot
                        ELSE SlotWithTime(f[k[3]])
                   ELSE IF other /\ k = <<"c1", "d2", "t1">>
                   THEN SlotWithTime("t1")
                   ELSE AbsentSlot]
  /\ notifs = <<>>
  /\ emails = <<>>
  /\ now = 0
  /\ req = [p \in Procs |-> IdleReq]
  /\ served = 0
  /\ bookings = {}
  /\ origin = [i \in AppIds |->
                 <<appts[i].counsellorId, appts[i].appointmentDate,
                   appts[i].appointmentTime>>]
  /\ mood_scores = BaseMoodScores
  /\ moods = BaseMoods
  /\ chat_conversations = BaseChats
  /\ assessments = BaseAssessments

NextRead ==
  \E p \in Procs :
       \/ BeginGetAvailability(p)
       \/ GetAvailabilitySlots(p)
       \/ BeginListAppointments(p)
       \/ ListAppointments(p)
       \/ BeginInsights(p)
       \/ InsightsAppt(p)
       \/ InsightsMoodScores(p)
       \/ InsightsMoods(p)
       \/ InsightsChats(p)
       \/ InsightsAssessments(p)

SpecRead == InitRead /\ [][NextRead]_vars

(***************************************************************************)
(* The insights endpoint over the samples students may have left, at half  *)
(* day 101 (the second half of day 50): mood scores of s1 now, earlier     *)
(* today, on the first instant of the windows of 7 and of 30 days and on   *)
(* the half day before each, in the future, without timestamp, without a   *)
(* usable score, with score 0, and one of s2; legacy moods and chats.      *)
(***************************************************************************)
MoodScoreSamples ==
  { [userId |-> "s1", at |-> <<101>>, score |-> <<40>>],
    [userId |-> "s1", at |-> <<100>>, score |-> <<80>>],
    [userId |-> "s1", at |-> <<87>>, score |-> <<20>>],
    [userId |-> "s1", at |-> <<86>>, score |-> <<20>>],
    [userId |-> "s1", at |-> <<41>>, score |-> <<10>>],
    [userId |-> "s1", at |-> <<40>>, score |-> <<10>>],
    [userId |-> "s1", at |-> <<105>>, score |-> <<70>>],
    [userId |-> "s1", at |-> <<>>, score |-> <<50>>],
    [userId |-> "s1", at |-> <<101>>, score |-> <<>>],
    [userId |-> "s1", at |-> <<99>>, score |-> <<0>>],
    [userId |-> "s2", at |-> <<101>>, score |-> <<90>>] }

\* the collection mood_scores: no sample, one sample, or two samples of
\* which the first is of today
MoodScoreLists ==
  {<<>>} \cup { <<a>> : a \in MoodScoreSamples }
         \cup { <<a, b>> : a \in { x \in MoodScoreSamples : x.at = <<101>> },
                            b \in { x \in MoodScoreSamples : x.userId = "s1" } }

MoodsLists ==
  { <<>>,
    << [user_id |-> "s1", userId |-> Missing, at |-> <<101>>, score |-> <<60>>] >>,
    << [user_id |-> "s1", userId |-> "s1", at |-> <<97>>, score |-> <<30>>] >> }

ChatLists ==
  { <<>>, << [user_id |-> "s1", at |-> <<95>>, score |-> <<1>>] >> }

InitInsights ==
  /\ db = TRUE
  /\ smtp = TRUE
  /\ conc = FALSE
  /\ users = [s \in Students |->
                IF s = "s1" THEN [exists |-> TRUE, email |-> "s1@user"]
                ELSE AbsentUser]
  /\ appts = [i \in AppIds |->
                IF i = "a1" THEN CHOOSE a \in InitAppts :
                                   a.studentEmail # "" /\ a.appointmentTime # ""
                ELSE OtherAppt]
  /\ slots = [k \in SlotKeys |->
                IF k = <<"c1", "d1", "t1">> THEN BookedSlot ELSE AbsentSlot]
  /\ notifs = <<>>
  /\ emails = <<>>
  /\ now = 101
  /\ req = [p \in Procs |-> IdleReq]
  /\ served = 0
  /\ bookings = {}
  /\ origin = [i \in AppIds |->
                 <<appts[i].counsellorId, appts[i].appointmentDate,
                   appts[i].appointmentTime>>]
  /\ mood_scores \in MoodScoreLists
  /\ moods \in MoodsLists
  /\ chat_conversations \in ChatLists
  /\ assessments = BaseAssessments

NextInsights ==
  \E p \in Procs :
       \/ BeginInsights(p)
       \/ BeginInsightsQuery(p)
       \/ InsightsAppt(p)
       \/ InsightsMoodScores(p)
       \/ InsightsMoods(p)
       \/ InsightsChats(p)
       \/ InsightsAssessments(p)

SpecInsights == InitInsights /\ [][NextInsights]_vars

(***************************************************************************)
(* Properties.                                                             *)
(***************************************************************************)
LifecycleOps == {"Start", "Complete", "UpdateStatus", "Reschedule", "Delete"}

\* thread p took the step
Stepped(p) == req'[p] # req[p]

\* the statuses the status endpoint documents as accepted
AcceptedStatuses ==
  { <<"p","e","n","d","i","n","g">>, <<"a","p","p","r","o","v","e","d">>,
    <<"c","o","n","f","i","r","m","e","d">>,
    <<"c","a","n","c","e","l","l","e","d">>, <<"c","a","n","c","e","l","e","d">> }

\* the store is up and the body carries what the endpoint requires
WellFormed(r) ==
  /\ db
  /\ r.cid # ""
  /\ r.op = "UpdateStatus" => Lower(r.status) \in AcceptedStatuses
  /\ r.op = "Reschedule" => r.date # "" /\ r.time # ""

\* the request of thread p names an existing appointment of someone else
NonOwner(r) ==
  /\ r.op \in LifecycleOps
  /\ appts[r.id].exists
  /\ appts[r.id].counsellorId # r.cid

\* C1 as stated: with the store up, every lifecycle request on an existing
\* appointment by a counsellorId other than the stored one is answered 403.
C1_AnyNonOwnerGets403 ==
  \A p \in Procs :
    (db /\ req[p].pc = 0 /\ NonOwner(req[p])) => req[p].resp = Forbidden

\* C1 (amended): no step of a lifecycle request whose counsellorId differs
\* from the stored one changes the appointments, the slots, the
\* notifications or the e-mails sent; such a request is answered 403 when it
\* is well formed (400 when a required field is missing or the status is
\* invalid, 500 when the store is down); and an appointment document only
\* changes in a step of a request that carries its stored counsellorId.
C1_NonOwnerChangesNothing ==
  [][ /\ \A p \in Procs :
           (Stepped(p) /\ NonOwner(req'[p])) =>
             /\ store' = store
             /\ req'[p].pc = 0 =>
                  req'[p].resp = IF WellFormed(req'[p]) THEN Forbidden
                                 ELSE IF db THEN BadRequest ELSE ServerError
      /\ \A id \in AppIds :
           appts'[id] # appts[id] =>
             \E p \in Procs :
               /\ Stepped(p)
               /\ req'[p].op \in LifecycleOps
               /\ req'[p].id = id
               /\ req'[p].cid = appts[id].counsellorId ]_vars

\* a delete by a counsellor who does not own a1 was answered 403 while a1
\* and its booked slot are still there
C1_Witness ==
  \E p \in Procs :
    /\ req[p].op = "Delete" /\ req[p].id = "a1" /\ req[p].cid = "c3"
    /\ req[p].pc = 0 /\ req[p].resp = Forbidden
    /\ appts["a1"].exists
    /\ slots[<<"c1", "d1", "t1">>].booked

\* the status a complete or status request writes
Target(r) == IF r.op = "Complete" THEN s_completed ELSE Lower(r.status)

\* C2: in complete and status, whenever the e-mail or the notification call
\* of a request has been made, its status write has been made before and the
\* appointment holds the new status; and with SMTP not configured a request
\* that passed the ownership test still writes the status and answers 200.
C2_WriteBeforeSideEffects ==
  \A p \in Procs :
    req[p].op \in {"Complete", "UpdateStatus"} =>
      /\ (req[p].att \cap {"email", "notify"} # {}) =>
           /\ "update" \in req[p].att
           /\ appts[req[p].id].status = Target(req[p])
      /\ (~smtp /\ "read" \in req[p].att /\ req[p].pc = 0) =>
           /\ req[p].resp = Success
           /\ "update" \in req[p].att
           /\ appts[req[p].id].status = Target(req[p])
           /\ emails = <<>>

\* with SMTP not configured, a complete whose student has an address called
\* send_email, wrote the notification and answered 200
C2_Witness ==
  \E p \in Procs :
    /\ ~smtp
    /\ req[p].op = "Complete" /\ req[p].pc = 0 /\ req[p].resp = Success
    /\ {"email", "notify"} \subseteq req[p].att
    /\ appts[req[p].id].status = s_completed
    /\ req[p].snap.status # s_completed

\* C3 as stated: in delete the removal of the appointment comes first, so
\* whenever a request has freed the slot, sent the cancellation e-mail or
\* written the appointment_deleted notification, the appointment document is
\* already gone.
C3_DeleteBeforeSideEffects ==
  \A p \in Procs :
    ( /\ req[p].op = "Delete"
      /\ \/ /\ "freeslot" \in req[p].att \ req[p].failed
            /\ slots[SlotOf(req[p].snap)].exists
         \/ \E i \in 1..Len(emails) :
              emails[i].about = "Delete" /\ emails[i].to = req[p].mail
         \/ \E i \in 1..Len(notifs) :
              /\ notifs[i].type = "appointment_deleted"
              /\ notifs[i].appointmentId = req[p].id )
    => ~appts[req[p].id].exists

\* C4: with the store up and a counsellorId supplied, a delete of an id that
\* does not exist answers 200 and a well-formed start, complete, status or
\* reschedule of it answers 404, at the first read and whatever the
\* counsellorId; no step of such a request changes the appointments, the
\* slots, the notifications or the e-mails sent.
C4_AbsentAppointment ==
  [][ \A p \in Procs :
        ( /\ Stepped(p)
          /\ req'[p].op \in LifecycleOps
          /\ WellFormed(req'[p])
          /\ ~appts[req'[p].id].exists )
        => /\ store' = store
           /\ req'[p].att = {}
           /\ At(req[p]) = "read" =>
                /\ req'[p].pc = 0
                /\ req'[p].resp =
                     IF req'[p].op = "Delete" THEN Success ELSE NotFound ]_vars

\* a delete of the absent a1 answered 200 to a counsellor who never owned
\* it, and a status request on it answered 404
C4_Witness ==
  /\ ~appts["a1"].exists
  /\ \E p \in Procs :
       /\ req[p].id = "a1" /\ req[p].pc = 0 /\ req[p].cid = "c3"
       /\ \/ req[p].op = "Delete" /\ req[p].resp = Success
          \/ req[p].op = "UpdateStatus" /\ req[p].resp = NotFound
       /\ served = 2
       /\ notifs = <<>> /\ emails = <<>>

\* the word shown to the student for a stored status
Display(st) ==
  CASE st = <<"a","p","p","r","o","v","e","d">> -> <<"c","o","n","f","i","r","m","e","d">>
    [] st = <<"c","o","n","f","i","r","m","e","d">> -> <<"c","o","n","f","i","r","m","e","d">>
    [] st = <<"c","a","n","c","e","l","l","e","d">> -> <<"c","a","n","c","e","l","l","e","d">>
    [] st = <<"c","a","n","c","e","l","e","d">> -> <<"c","a","n","c","e","l","l","e","d">>
    [] OTHER -> st

DeletedNotes(ns, sid, id) ==
  { i \in 1..Len(ns) :
      /\ ns[i].type = "appointment_deleted"
      /\ ns[i].userId = sid
      /\ ns[i].appointmentId = id }

\* C7: the slot step of a delete that does not raise leaves every other slot
\* alone, creates no slot, and sets booked=false, bookedBy=null,
\* sessionId=null on the slot of the appointment as read, its time and
\* active kept; no other step of a delete touches a slot.  When the delete
\* has answered 200 with no call raising, the appointment is gone, that slot
\* (if it exists) is free and cleared, and exactly one appointment_deleted
\* notification for the student and the appointment exists (none when the
\* appointment names no student).
C7_DeleteFreesSlotAndNotifies ==
  [][ \A p \in Procs :
        (Stepped(p) /\ req'[p].op = "Delete") =>
          /\ At(req[p]) # "freeslot" => slots' = slots
          /\ (At(req[p]) = "freeslot" /\ "freeslot" \notin req'[p].failed) =>
               \A k \in SlotKeys :
                 slots'[k] =
                   IF k = SlotOf(req[p].snap) /\ slots[k].exists
                   THEN [slots[k] EXCEPT !.booked = FALSE, !.bookedBy = Null,
                                         !.sessionId = Null,
                                         !.updatedAt = slots'[k].updatedAt]
                   ELSE slots[k]
          /\ ( /\ req'[p].pc = 0 /\ req'[p].resp = Success
               /\ "read" \in req'[p].att /\ req'[p].failed = {} ) =>
               /\ ~appts'[req'[p].id].exists
               /\ \A k \in SlotKeys :
                    (k = SlotOf(req'[p].snap) /\ slots'[k].exists) =>
                      /\ ~slots'[k].booked
                      /\ slots'[k].bookedBy = Null
                      /\ slots'[k].sessionId = Null
               /\ Cardinality(DeletedNotes(notifs', req'[p].sid, req'[p].id))
                    = IF req'[p].sid # "" THEN 1 ELSE 0
               /\ req'[p].sid =
                    IF req'[p].snap.studentId # "" THEN req'[p].snap.studentId
                    ELSE req'[p].snap.userId ]_vars

\* a delete with no call raising ended: a1 is gone, its booked slot is free
\* and cleared with time and active kept, and the student was notified once
C7_Witness ==
  \E p \in Procs :
    /\ req[p].op = "Delete" /\ req[p].pc = 0 /\ req[p].resp = Success
    /\ "delete" \in req[p].att /\ req[p].failed = {}
    /\ ~appts["a1"].exists
    /\ slots[<<"c1", "d1", "t1">>] =
         [BookedSlot EXCEPT !.booked = FALSE, !.bookedBy = Null,
                            !.sessionId = Null, !.updatedAt = now]
    /\ Len(notifs) = 1
    /\ notifs[1].type = "appointment_deleted"
    /\ notifs[1].userId = "s1"

\* C8: with the store up, a reschedule lacking the date or the time is
\* answered 400 at entry.  No step of any reschedule touches a slot, a
\* notification, an e-mail or another appointment, and of its own
\* appointment it changes at most appointmentDate, appointmentTime and
\* updatedAt; the write of the owner's request sets these three to the
\* request's date and time and the clock, and the request answers 200.
C8_RescheduleFrame ==
  [][ \A p \in Procs :
        (Stepped(p) /\ req'[p].op = "Reschedule") =>
          /\ slots' = slots /\ notifs' = notifs /\ emails' = emails
          /\ \A id \in AppIds :
               appts'[id] =
                 IF id = req'[p].id
                 THEN [appts[id] EXCEPT
                         !.appointmentDate = appts'[id].appointmentDate,
                         !.appointmentTime = appts'[id].appointmentTime,
                         !.updatedAt = appts'[id].updatedAt]
                 ELSE appts[id]
          /\ (db /\ (req'[p].date = "" \/ req'[p].time = "")) =>
               /\ req'[p].pc = 0 /\ req'[p].resp = BadRequest
               /\ req'[p].att = {}
               /\ appts' = appts
          /\ At(req[p]) = "update" =>
               /\ appts'[req'[p].id].appointmentDate = req'[p].date
               /\ appts'[req'[p].id].appointmentTime = req'[p].time
               /\ appts'[req'[p].id].updatedAt = now
               /\ req'[p].pc = 0 /\ req'[p].resp = Success ]_vars

\* the owner moved a1 from d1, t1 to d2, t2: status and student are as
\* before, the slot at d1, t1 is still booked, there is no slot at d2, t2,
\* and nobody was told
C8_Witness ==
  \E p \in Procs :
    /\ req[p].op = "Reschedule" /\ req[p].pc = 0 /\ req[p].resp = Success
    /\ req[p].snap.appointmentDate = "d1" /\ req[p].snap.appointmentTime = "t1"
    /\ appts["a1"] = [req[p].snap EXCEPT !.appointmentDate = "d2",
                                         !.appointmentTime = "t2",
                                         !.updatedAt = now]
    /\ slots[<<"c1", "d1", "t1">>] = BookedSlot
    /\ ~slots[<<"c1", "d2", "t2">>].exists
    /\ notifs = <<>> /\ emails = <<>>

\* C9: no step of a start touches a slot, a notification, an e-mail or
\* another appointment, and of its own appointment it changes at most status
\* and updatedAt; the write of the owner's request sets status to
\* in_progress whatever it was, and the request answers 200.
C9_StartFrame ==
  [][ \A p \in Procs :
        (Stepped(p) /\ req'[p].op = "Start") =>
          /\ slots' = slots /\ notifs' = notifs /\ emails' = emails
          /\ \A id \in AppIds :
               appts'[id] =
                 IF id = req'[p].id
                 THEN [appts[id] EXCEPT !.status = appts'[id].status,
                                        !.updatedAt = appts'[id].updatedAt]
                 ELSE appts[id]
          /\ At(req[p]) = "update" =>
               /\ appts'[req'[p].id].status = <<"i","n","_","p","r","o","g","r","e","s","s">>
               /\ appts'[req'[p].id].updatedAt = now
               /\ req'[p].pc = 0 /\ req'[p].resp = Success ]_vars

\* the owner started a1 after it was completed: it is in_progress, and the
\* completion's notification is the only one
C9_Witness ==
  \E p \in Procs :
    /\ req[p].op = "Start" /\ req[p].pc = 0 /\ req[p].resp = Success
    /\ req[p].snap.status = s_completed
    /\ appts["a1"] = [req[p].snap EXCEPT !.status = s_in_progress, !.updatedAt = now]
    /\ slots[<<"c1", "d1", "t1">>] = BookedSlot
    /\ Len(notifs) = 1 /\ notifs[1].type = "appointment_completed"

\* C10 as stated: an upsert of a slot that exists leaves its booked,
\* bookedBy, sessionId and active values as they were.
C10_UpsertKeepsBooked ==
  [][ \A p \in Procs :
        (Stepped(p) /\ At(req[p]) = "set" /\ slots[SlotKey(req[p])].exists) =>
          /\ slots'[SlotKey(req[p])].booked = slots[SlotKey(req[p])].booked
          /\ slots'[SlotKey(req[p])].bookedBy = slots[SlotKey(req[p])].bookedBy
          /\ slots'[SlotKey(req[p])].sessionId = slots[SlotKey(req[p])].sessionId
          /\ slots'[SlotKey(req[p])].active = slots[SlotKey(req[p])].active ]_vars

\* C10 (amended): with the store up, an upsert lacking counsellorId, dateKey
\* or time is answered 400 and writes nothing.  Otherwise its one write
\* leaves every other slot alone and makes the slot exist with the given
\* time, booked=false (also when it was booked) and a new updatedAt, with
\* bookedBy, sessionId and active as they were (not set when the slot is
\* new); on a slot that is already free with that time only updatedAt
\* changes, so a second upsert in a row changes nothing else.
C10_UpsertMerges ==
  [][ \A p \in Procs :
        (Stepped(p) /\ req'[p].op = "Upsert") =>
          /\ appts' = appts /\ notifs' = notifs /\ emails' = emails
          /\ (db /\ (req'[p].cid = "" \/ req'[p].date = "" \/ req'[p].time = "")) =>
               /\ req'[p].pc = 0 /\ req'[p].resp = BadRequest
               /\ slots' = slots
          /\ At(req[p]) # "set" => slots' = slots
          /\ At(req[p]) = "set" =>
               /\ req'[p].pc = 0 /\ req'[p].resp = Success
               /\ \A k \in SlotKeys :
                    slots'[k] =
                      IF k = <<req[p].cid, req[p].date, req[p].time>>
                      THEN [exists |-> TRUE, time |-> req[p].time,
                            booked |-> FALSE, updatedAt |-> now,
                            bookedBy |-> IF slots[k].exists
                                         THEN slots[k].bookedBy ELSE Missing,
                            sessionId |-> IF slots[k].exists
                                          THEN slots[k].sessionId ELSE Missing,
                            active |-> IF slots[k].exists
                                       THEN slots[k].active ELSE Missing]
                      ELSE slots[k]
               /\ \A k \in SlotKeys :
                    ( /\ k = <<req[p].cid, req[p].date, req[p].time>>
                      /\ slots[k].exists /\ ~slots[k].booked
                      /\ slots[k].time = req[p].time )
                    => slots'[k] = [slots[k] EXCEPT !.updatedAt = now] ]_vars

\* the second of two upserts of the slot of c1 on d1 at t1, which did not
\* exist at the start: the slot is free, with no booker and no active flag
C10_Witness ==
  \E p \in Procs :
    /\ req[p].op = "Upsert" /\ req[p].pc = 0 /\ req[p].resp = Success
    /\ served = 2
    /\ appts["a1"].updatedAt = 0
    /\ slots[<<"c1", "d1", "t1">>] =
         [exists |-> TRUE, time |-> "t1", booked |-> FALSE, updatedAt |-> 2,
          bookedBy |-> Missing, sessionId |-> Missing, active |-> Missing]

\* C11 as stated: a toggle creates the slot with booked=false when it is
\* absent and then sets active as requested; no step of a toggle changes
\* booked, bookedBy or sessionId of a slot that exists when the step is
\* taken, also when other requests and bookings run in between.
C11_ToggleKeepsBooking ==
  [][ \A p \in Procs :
        (Stepped(p) /\ req[p].op = "Toggle" /\ req[p].pc # 0) =>
          LET k == <<req[p].cid, req[p].date, req[p].time>>
          IN /\ (At(req[p]) = "create" /\ ~slots[k].exists) =>
                  slots'[k].exists /\ ~slots'[k].booked
             /\ At(req[p]) = "activate" =>
                  slots'[k].active = (IF req[p].active THEN "true" ELSE "false")
             /\ slots[k].exists =>
                  /\ slots'[k].booked = slots[k].booked
                  /\ slots'[k].bookedBy = slots[k].bookedBy
                  /\ slots'[k].sessionId = slots[k].sessionId ]_vars

\* C11 (amended): a toggle touches only its own slot.  The existence check
\* writes nothing.  If the check found the slot, the toggle does not write
\* before the last step; if it found none, the toggle then replaces the
\* document, whatever it is by then, with one holding only the time and
\* booked=false, so that a booking made in between is lost.  The last step
\* finds the slot and changes only active, to the requested value, and
\* updatedAt, and the toggle answers 200.
C11_ToggleWritesByItsCheck ==
  [][ \A p \in Procs :
        (Stepped(p) /\ req[p].op = "Toggle" /\ req[p].pc # 0) =>
          LET k == <<req[p].cid, req[p].date, req[p].time>>
          IN /\ appts' = appts /\ notifs' = notifs /\ emails' = emails
             /\ \A j \in SlotKeys \ {k} : slots'[j] = slots[j]
             /\ At(req[p]) = "get" =>
                  /\ slots' = slots
                  /\ req'[p].found = slots[k].exists
             /\ (At(req[p]) = "create" /\ req[p].found) =>
                  slots' = slots /\ slots[k].exists
             /\ (At(req[p]) = "create" /\ ~req[p].found) =>
                  slots'[k] = [exists |-> TRUE, time |-> req[p].time,
                               booked |-> FALSE, bookedBy |-> Missing,
                               sessionId |-> Missing, active |-> Missing,
                               updatedAt |-> -1]
             /\ At(req[p]) = "activate" =>
                  /\ slots[k].exists
                  /\ slots'[k] =
                       [slots[k] EXCEPT
                          !.active = IF req[p].active THEN "true" ELSE "false",
                          !.updatedAt = now]
                  /\ req'[p].pc = 0 /\ req'[p].resp = Success ]_vars

\* a toggle that found no slot has answered 200, the slot was booked while
\* the toggle ran, and is now free with nobody on it
C11_Witness ==
  \E p \in Procs :
    /\ req[p].op = "Toggle" /\ req[p].pc = 0 /\ req[p].resp = Success
    /\ ~req[p].found
    /\ <<"c1", "d1", "t1">> \in bookings
    /\ slots[<<"c1", "d1", "t1">>].exists
    /\ ~slots[<<"c1", "d1", "t1">>].booked
    /\ slots[<<"c1", "d1", "t1">>].bookedBy = Missing
    /\ slots[<<"c1", "d1", "t1">>].sessionId = Missing
    /\ slots[<<"c1", "d1", "t1">>].active = "false"

\* C17 as stated: in every reachable state every slot with booked=false has
\* bookedBy and sessionId absent or null.
C17_FreeSlotNamesNobody ==
  \A k \in SlotKeys :
    (slots[k].exists /\ ~slots[k].booked) =>
      /\ slots[k].bookedBy \in {Missing, Null}
      /\ slots[k].sessionId \in {Missing, Null}

\* C18 as stated: when a delete by the owner has gone through all its calls
\* with none raising, the slot the appointment was booked at, if it was
\* booked for this appointment, is free with bookedBy and sessionId cleared.
C18_DeleteAfterRescheduleFreesSlot ==
  \A p \in Procs :
    ( /\ req[p].op = "Delete" /\ req[p].pc = 0 /\ req[p].resp = Success
      /\ "delete" \in req[p].att /\ req[p].failed = {}
      /\ origin[req[p].id] \in SlotKeys )
    => LET k == origin[req[p].id]
       IN (slots[k].exists /\ slots[k].sessionId \in {req[p].id, Null}) =>
            /\ ~slots[k].booked
            /\ slots[k].bookedBy = Null
            /\ slots[k].sessionId = Null

\* C19 as stated: at most one appointment_deleted notification per
\* appointment and at most one cancellation e-mail (every delete that gets
\* past the ownership test is one of a1) ever exist, whatever the
\* interleaving of the requests.
C19_OneDeletedNotification ==
  /\ \A id \in AppIds :
       Cardinality({ i \in 1..Len(notifs) :
                       /\ notifs[i].type = "appointment_deleted"
                       /\ notifs[i].appointmentId = id }) <= 1
  /\ Cardinality({ i \in 1..Len(emails) : emails[i].about = "Delete" }) <= 1

\* C19 (amended): a delete that reads the appointment absent answers 200 at
\* once and changes nothing.  An appointment_deleted notification and a
\* cancellation e-mail are produced only by the notification and e-mail
\* calls of a delete that read the appointment present and owned, one at a
\* time and at most one of each per such delete; deletes that both read the
\* appointment before either removes it each produce theirs.
C19_OnePerDeleteThatReadIt ==
  [][ /\ \A p \in Procs :
           (Stepped(p) /\ req[p].op = "Delete" /\ req[p].pc # 0) =>
             /\ (At(req[p]) = "read" /\ ~appts[req[p].id].exists) =>
                  /\ req'[p].pc = 0 /\ req'[p].resp = Success
                  /\ req'[p].att = {}
                  /\ <<appts, slots, notifs, emails>>' = <<appts, slots, notifs, emails>>
             /\ notifs' # notifs =>
                  /\ At(req[p]) = "notify" /\ "notify" \notin req[p].att
                  /\ req[p].snap.exists /\ req[p].snap.counsellorId = req[p].cid
                  /\ Len(notifs') = Len(notifs) + 1
                  /\ SubSeq(notifs', 1, Len(notifs)) = notifs
                  /\ notifs'[Len(notifs')].type = "appointment_deleted"
                  /\ notifs'[Len(notifs')].appointmentId = req[p].id
             /\ emails' # emails =>
                  /\ At(req[p]) = "email" /\ "email" \notin req[p].att
                  /\ req[p].snap.exists /\ req[p].snap.counsellorId = req[p].cid
                  /\ Len(emails') = Len(emails) + 1
                  /\ SubSeq(emails', 1, Len(emails)) = emails
                  /\ emails'[Len(emails')].about = "Delete"
      /\ ( /\ Len(notifs') > Len(notifs)
           /\ notifs'[Len(notifs')].type = "appointment_deleted" ) =>
           \E p \in Procs : Stepped(p) /\ req[p].op = "Delete"
      /\ ( /\ Len(emails') > Len(emails)
           /\ emails'[Len(emails')].about = "Delete" ) =>
           \E p \in Procs : Stepped(p) /\ req[p].op = "Delete" ]_vars

\* two deletes of a1 ran at the same time and both answered 200: a1 is gone
\* and the student has two appointment_deleted notifications and two e-mails
C19_Witness ==
  /\ \A p \in Procs :
       /\ req[p].op = "Delete" /\ req[p].pc = 0 /\ req[p].resp = Success
       /\ req[p].id = "a1" /\ "delete" \in req[p].att
  /\ ~appts["a1"].exists
  /\ Len(notifs) = 2
  /\ \A i \in 1..2 : /\ notifs[i].type = "appointment_deleted"
                     /\ notifs[i].appointmentId = "a1"
                     /\ notifs[i].userId = "s1"
  /\ Len(emails) = 2

\* t is src without the spaces around it and with ':' for every '.'
Normalized(src, t) ==
  \E i \in 1..(Len(src) + 1), j \in 0..Len(src) :
    /\ i <= j + 1
    /\ \A n \in 1..Len(src) : (n < i \/ n > j) => src[n] = " "
    /\ i <= j => (src[i] # " " /\ src[j] # " ")
    /\ Len(t) = j - i + 1
    /\ \A n \in 1..Len(t) :
         t[n] = IF src[i + n - 1] = "." THEN ":" ELSE src[i + n - 1]

\* x sorts before y: x is a proper prefix of y, or at the first place where
\* they differ x has the smaller character
Before(x, y) ==
  \E k \in 1..(Len(y)) :
    /\ \A n \in 1..(k - 1) : n <= Len(x) /\ x[n] = y[n]
    /\ k > Len(x) \/ (k <= Len(x) /\ Ord[x[k]] < Ord[y[k]])

\* C12 as stated: a successful ListAvailability answers with one entry per
\* slot document of the counsellor and day, each with the document as
\* stored and its time normalized (spaces around it stripped, '.' replaced
\* by ':'), the document key taken for the time when the stored time is
\* missing, null, empty or only spaces; the entries are in ascending order
\* of the normalized time.
C12_ListNormalizedAndSorted ==
  \A p \in Procs :
    (req[p].op = "GetAvailability" /\ req[p].pc = 0 /\ req[p].resp = Success) =>
      LET out == req[p].out
          ids == { t \in Times : slots[<<req[p].cid, req[p].date, t>>].exists }
      IN /\ Len(out) = Cardinality(ids)
         /\ { out[i].id : i \in 1..Len(out) } = ids
         /\ \A i \in 1..Len(out) :
              LET doc == slots[<<req[p].cid, req[p].date, out[i].id>>]
                  raw == Text[doc.time]
                  blank == \A n \in 1..Len(raw) : raw[n] = " "
              IN /\ out[i].doc = doc
                 /\ Normalized(IF blank THEN Text[out[i].id] ELSE raw, out[i].time)
         /\ \A i, j \in 1..Len(out) : i < j => ~Before(out[j].time, out[i].time)

\* an insights request that was answered with the trend
InsightsDone(r) == r.op = "Insights" /\ r.pc = 0 /\ r.resp = Success

\* the window the query asks for, put into [7, 30]
ClampOf(days) ==
  CASE days = <<"3">> -> 7
    [] days = <<"7">> -> 7
    [] days = <<"-","5">> -> 7
    [] days = <<"1","0">> -> 10
    [] days = <<"3","0">> -> 30
    [] days = <<"9","0">> -> 30
    [] OTHER -> 30

\* the sample is dated on the day, in the window of the request, and scored
Dated(r, d, day) ==
  /\ d.at # <<>>
  /\ d.score # <<>>
  /\ d.at[1] >= r.utcnow - 2 * ClampOf(r.days)
  /\ (day = <<>> \/ d.at[1] \div 2 = day[1])

PrimarySample(r, day) ==
  \E i \in 1..Len(mood_scores) :
     mood_scores[i].userId = r.sid /\ Dated(r, mood_scores[i], day)

LegacySample(r, day) ==
  \/ \E i \in 1..Len(moods) :
        /\ moods[i].user_id = r.sid \/ moods[i].userId = r.sid
        /\ Dated(r, moods[i], day)
  \/ \E i \in 1..Len(chat_conversations) :
        /\ chat_conversations[i].user_id = r.sid
        /\ Dated(r, chat_conversations[i], day)

\* C13: the trend of an answered insights request has as many entries as
\* the requested days put into [7, 30] (3 gives 7, 90 gives 30, a missing or
\* non-integer value gives 30), one per calendar day, consecutive and
\* ascending, the last one today; an entry has an average only if a sample
\* of the student dated on that day within the window exists, so a day
\* without samples has none (and not 0); when no read failed, a day of the
\* trend with a primary sample has an average.
C13_TrendOverClampedWindow ==
  \A p \in Procs :
     LET r == req[p]
     IN InsightsDone(r) =>
          LET trend == r.out[1]
              n == ClampOf(r.days)
          IN /\ MinDays <= n /\ n <= MaxDays
             /\ Len(trend) = n
             /\ trend[n].date = r.utcnow \div 2
             /\ \A i \in 1..(n - 1) : trend[i + 1].date = trend[i].date + 1
             /\ \A i \in 1..n :
                  /\ trend[i].avg # <<>> =>
                       \/ PrimarySample(r, <<trend[i].date>>)
                       \/ LegacySample(r, <<trend[i].date>>)
                  /\ (r.failed = {} /\ PrimarySample(r, <<trend[i].date>>))
                       => trend[i].avg # <<>>

\* days=3 was answered with seven days, some with an average and some
\* without
C13_Witness ==
  \E p \in Procs :
     /\ InsightsDone(req[p])
     /\ req[p].days = <<"3">>
     /\ Len(req[p].out[1]) = 7
     /\ \E i, j \in 1..7 :
          req[p].out[1][i].avg # <<>> /\ req[p].out[1][j].avg = <<>>

\* the query asks for the legacy sources
FallbackAsked(r) == r.fallback \in {<<"T","r","u","e">>, <<"1">>}

LegacyRead(r) == r.att \cap {"moods", "chat_conversations"}

C15_EveryEndpointAnswers500 ==
  \A p \in Procs :
     (~db /\ req[p].op # "none" /\ req[p].pc = 0) => req[p].resp = ServerError

\* C15 amended: without a store a request makes no remote call; every
\* endpoint but list appointments answers 500 whatever the body or query;
\* list appointments answers 500 when limit is not an integer, else 400 when
\* counsellorId is missing, else success with an empty list.
C15_StoreDown ==
  \A p \in Procs :
     LET r == req[p]
     IN (~db /\ r.op # "none") =>
          /\ r.pc = 0
          /\ r.att = {}
          /\ r.op # "ListAppointments" => r.resp = ServerError
          /\ r.op = "ListAppointments" =>
               /\ r.resp = IF r.limit = <<"a","b","c">> THEN ServerError
                           ELSE IF r.cid = "" THEN BadRequest
                           ELSE Success
               /\ r.out = <<>>

\* without a store, a list request was answered with success after another
\* request
C15_Witness ==
  /\ ~db
  /\ served = 2
  /\ req["p1"].op = "ListAppointments"
  /\ req["p1"].cid = "c1"
  /\ req["p1"].resp = Success

\* C16: a step either leaves the notifications as they are or appends one
\* record to them, and then it is a step of a Complete, UpdateStatus or
\* Delete request in progress whose appointment exists and is owned by the
\* request's counsellorId; the record has the type of the operation, the
\* appointment's studentId (its userId when it has no studentId) as userId,
\* which is not empty, the request's id as appointmentId and read = false.
\* So no other request creates one, and none is modified or removed.
C16_NotificationsOnlyAppended ==
  [][ \/ notifs' = notifs
      \/ \E p \in Procs :
           LET r == req[p]
               appt == appts[r.id]
               n == notifs'[Len(notifs')]
           IN /\ r.op \in {"Complete", "UpdateStatus", "Delete"}
              /\ r.pc # 0
              /\ req'[p] # r
              /\ appt.exists /\ appt.counsellorId = r.cid
              /\ Len(notifs') = Len(notifs) + 1
              /\ SubSeq(notifs', 1, Len(notifs)) = notifs
              /\ n.type = CASE r.op = "Complete" -> "appointment_completed"
                             [] r.op = "UpdateStatus" -> "appointment_status"
                             [] r.op = "Delete" -> "appointment_deleted"
              /\ n.userId = IF appt.studentId # "" THEN appt.studentId
                            ELSE appt.userId
              /\ n.userId # ""
              /\ n.appointmentId = r.id
              /\ n.read = FALSE
    ]_vars

\* a status change and then a delete each told the student, the second one
\* found by the legacy userId
C16_Witness ==
  /\ Len(notifs) = 2
  /\ notifs[1].type = "appointment_status"
  /\ notifs[2].type = "appointment_deleted"
  /\ notifs[2].userId = "s2"
  /\ notifs[2].appointmentId = "a1"
  /\ ~appts["a1"].exists

====
